---- MODULE Spec2Model ----
(***************************************************************************)
(* State-machine model of web3/providers/manager.py:                       *)
(*   RequestManager             blocking / spawned requests, one-shot      *)
(*                              retrieval (pending_requests)               *)
(*   ManagerWrapper             pass-through to wrapped_manager            *)
(*   BaseSendRawTransactionMixin  eth_sendTransaction interception, nonce  *)
(*                              allocation, _known_transactions            *)
(*   DelegatedSigningManager    chain nonce and signature from a           *)
(*                              signature_manager                          *)
(* Every RPC round trip (provider.make_request) is one step: it is the     *)
(* only place where a gevent greenlet can be suspended.                    *)
(***************************************************************************)
EXTENDS Integers, Sequences, FiniteSets, TLC

\* ------------------------------------------------------------------ bounds
\* largest nonce / pending count the node reports
MaxNonce == 1
\* number of transactions the node accepts (hashes 1..MaxTxs)
MaxTxs == 2
\* number of request ids request_async hands out
MaxRequests == 1

Addrs == {"0xAA", "0xBB"}
Tasks == {"t1", "t2"}
Hashes == 1..MaxTxs
Nonces == 0..MaxNonce
RequestIds == 1..MaxRequests

\* ------------------------------------------------------------ python values
\* A value that travels in a JSON-RPC envelope, flattened to one record shape:
\*   hex     the str "0x<n>"             (a quantity; not itself JSON text)
\*   hash    the str "0x<hash n>"        (a transaction hash; not JSON text)
\*   txn     a dict {"from": a, "nonce": "0x<n>", ...}
\*   null    None
\*   msg     a dict {"code": n, ...}     (an error payload)
\*   jsonstr a str whose content is the JSON text {"<a>": "0x<n>"}
Hex(n) == [t |-> "hex", n |-> n, a |-> ""]
HashStr(h) == [t |-> "hash", n |-> h, a |-> ""]
Txn(from, nonce) == [t |-> "txn", n |-> nonce, a |-> from]
Null == [t |-> "null", n |-> 0, a |-> ""]
Msg(code) == [t |-> "msg", n |-> code, a |-> ""]
JsonStr(key, n) == [t |-> "jsonstr", n |-> n, a |-> key]

\* What provider.make_request hands back: the bytes of a JSON object with an
\* optional "result" and an optional "error" member, bytes that are no JSON
\* ("garbage"), or an exception raised by the transport ("raise").
Bytes(hasResult, result, hasError, error) ==
    [t |-> "bytes", hasResult |-> hasResult, result |-> result,
     hasError |-> hasError, error |-> error]
ResultBytes(v) == Bytes(TRUE, v, FALSE, Null)
ErrorBytes(e) == Bytes(FALSE, Null, TRUE, e)
Garbage == [t |-> "garbage", hasResult |-> FALSE, result |-> Null,
            hasError |-> FALSE, error |-> Null]
Raise == [t |-> "raise", hasResult |-> FALSE, result |-> Null,
          hasError |-> FALSE, error |-> Null]

\* The outcome of a call: st = "ok" with the returned value, or the exception.
Ok(v) == [st |-> "ok", v |-> v]
Fail(kind) == [st |-> kind, v |-> Null]
RPCError(e) == [st |-> "RPCError", v |-> e]
NoOutcome == [st |-> "none", v |-> Null]

\* force_text: bytes -> text, anything else unchanged
force_text(x) == IF x.t = "bytes" THEN [x EXCEPT !.t = "text"] ELSE x

\* json.loads: a str holding JSON text decodes to the object it denotes; a str
\* that is no JSON text raises a decode error; a non-str argument (dict, None)
\* raises TypeError.  The decoded object is returned as [hasResult, result,
\* hasError, error].
json_loads(x) ==
    IF x.t = "text"
    THEN [st |-> "ok", hasResult |-> x.hasResult, result |-> x.result,
          hasError |-> x.hasError, error |-> x.error]
    ELSE IF x.t = "jsonstr"
    THEN [st |-> "ok", hasResult |-> (x.a = "result"), result |-> Hex(x.n),
          hasError |-> (x.a = "error"), error |-> Hex(x.n)]
    ELSE IF x.t \in {"hex", "hash", "garbage", "bytes"}
    THEN [st |-> "DecodeError", hasResult |-> FALSE, result |-> Null,
          hasError |-> FALSE, error |-> Null]
    ELSE [st |-> "TypeError", hasResult |-> FALSE, result |-> Null,
          hasError |-> FALSE, error |-> Null]

\* the result is returned when there is one, the error is looked at after
EnvelopeOutcome_result_first(r) ==
    IF r.st # "ok" THEN Fail(r.st)
    ELSE IF r.hasResult THEN Ok(r.result)
    ELSE IF r.hasError THEN RPCError(r.error)
    ELSE Fail("KeyError")

\* `if "error" in response: raise ValueError(response["error"])`
\* `return response['result']`   (KeyError when the member is missing)
EnvelopeOutcome(r) ==
    IF r.st # "ok" THEN Fail(r.st)
    ELSE IF r.hasError THEN RPCError(r.error)
    ELSE IF r.hasResult THEN Ok(r.result)
    ELSE Fail("KeyError")

\* RequestManager.request_blocking, given what make_request produced
request_blocking(raw) ==
    IF raw.t = "raise" THEN Fail("TransportError")
    ELSE EnvelopeOutcome(json_loads(force_text(raw)))

\* RequestManager.receive_blocking after the pop, given the outcome of the
\* greenlet (request.get re-raises the greenlet's exception, otherwise it
\* returns what request_blocking returned, and that value is decoded again)
receive_decode(out) ==
    IF out.st # "ok" THEN out
    ELSE EnvelopeOutcome(json_loads(out.v))

\* to_decimal of a "0x.." str
to_decimal(x) == x.n

PyInt(n) == [t |-> "int", n |-> n, a |-> ""]

Max(S) == CHOOSE m \in S : \A x \in S : x <= m

\* ------------------------------------------------------------------- state
VARIABLES
    pending_requests,    \* RequestManager.pending_requests: the ids it holds
    greenlets,           \* the greenlet spawned for each id: [st, m, sent,
                         \* raw, out]
    next_id,             \* ids handed out so far + 1 (uuid4 never repeats)
    timers,              \* the armed gevent.Timeout objects of each caller,
                         \* named by the id whose retrieval armed them
    found,               \* how many receive_blocking calls found each id in
                         \* pending_requests (a history variable)
    known_transactions,  \* BaseSendRawTransactionMixin._known_transactions
    delegated,           \* TRUE: the interceptor is a DelegatedSigningManager
    txs,                 \* node: the transactions it holds, hash = index
    pc,                  \* where each caller is
    fr,                  \* the locals of each caller's running call
    hist,                \* what get_nonce last observed and returned for
                         \* the address Watched (history variables)
    recording,           \* which history variables are recorded
    extra_fields,        \* the fields besides 'from' and 'nonce' that the
                         \* caller's transactions carry
    layers,              \* the number of ManagerWrappers stacked over the
                         \* RequestManager
    provider             \* RequestManager.provider

vars == <<pending_requests, greenlets, next_id, timers, found,
          known_transactions,
          delegated, txs, pc, fr, hist, recording, extra_fields,
          layers, provider>>

rm_vars == <<pending_requests, greenlets, next_id, timers, found, recording,
             extra_fields, layers, provider>>

txn_vars == <<known_transactions, delegated, txs, hist, recording,
              extra_fields, layers, provider>>

NoGreenlet ==
    [st |-> "none", m |-> "", sent |-> "", raw |-> Raise, out |-> NoOutcome]

IdleFrame ==
    [op |-> "none", top |-> "", m |-> "", a |-> "", hasNonce |-> FALSE, n |-> 0,
     sn |-> -1, wn |-> -1, chain |-> -1, snap |-> {}, todo |-> {}, coll |-> {},
     ret |-> -1, nonce |-> -1, h |-> 0, id |-> 0, at |-> "",
     floor |-> -1, res |-> NoOutcome, log |-> <<>>,
     base |-> <<>>, full |-> <<>>]

\* History variables.  They are recorded for one of the two addresses (the
\* code and the model treat the two alike), and only in the specification
\* that reads them (recording):
\*   chain  the chain nonce the latest get_chain_nonce(Watched) returned
\*          (-1: none yet)
\*   floor  ("floor") the value the latest get_nonce(Watched) returned, -1
\*          when there was none or when a chain nonce lower than the one
\*          before it has been observed since
\*   unex   ("unexamined") the hashes tracked under Watched that the prune
\*          pass of the latest get_nonce(Watched) has not examined: those it
\*          has not reached and those added since
\*   ("added") chain is the chain nonce of the get_nonce(Watched) pass that
\*          has taken its copy and not returned (-1: none), and unex the
\*          hashes added under Watched while the latest pass was in that
\*          stretch
Watched == "0xAA"

NoHist == [chain |-> -1, floor |-> -1, unex |-> {}]

Observed(h, a, c, tracked) ==
    IF a # Watched \/ recording \notin {"floor", "unexamined", "added"} THEN h
    ELSE IF recording = "floor"
    THEN [h EXCEPT !.chain = c,
                   !.floor = IF c >= h.chain THEN @ ELSE -1]
    ELSE IF recording = "unexamined"
    THEN [h EXCEPT !.chain = c, !.unex = tracked]
    ELSE [h EXCEPT !.chain = c, !.unex = {}]

Examined(h, a, txn_hash) ==
    IF a = Watched /\ recording = "unexamined"
    THEN [h EXCEPT !.unex = @ \ {txn_hash}] ELSE h

Returned(h, a, r) ==
    IF a = Watched /\ recording = "floor"
    THEN [h EXCEPT !.floor = r]
    ELSE IF a = Watched /\ recording = "added"
    THEN [h EXCEPT !.chain = -1] ELSE h

Added(h, a, txn_hash) ==
    IF a = Watched /\ recording = "unexamined"
    THEN [h EXCEPT !.unex = @ \cup {txn_hash}]
    ELSE IF a = Watched /\ recording = "added" /\ h.chain >= 0
    THEN [h EXCEPT !.unex = @ \cup {txn_hash}] ELSE h

Start ==
    /\ pending_requests = {}
    /\ greenlets = [i \in RequestIds |-> NoGreenlet]
    /\ next_id = 1
    /\ timers = [t \in Tasks |-> {}]
    /\ found = [i \in RequestIds |-> 0]
    /\ known_transactions = [a \in Addrs |-> {}]
    /\ delegated \in BOOLEAN
    /\ txs = <<>>
    /\ pc = [t \in Tasks |-> "idle"]
    /\ fr = [t \in Tasks |-> IdleFrame]
    /\ hist = NoHist

\* one wrapper (the interceptor) over a RequestManager with its provider
OneLayer == layers = 1 /\ provider = "p1"

Init == Start /\ recording = "off" /\ extra_fields = {} /\ OneLayer

\* ------------------------------------------------------------ the provider
\* make_request for an RPC whose answer the model does not interpret further
\* than success or failure: an error envelope, undecodable bytes, or a
\* transport exception.
FailRaws == {ErrorBytes(Msg(1)), Garbage, Raise}

\* eth_getTransactionCount(addr, "pending"): any count, or a failure
CountRaws == {ResultBytes(Hex(c)) : c \in Nonces} \cup FailRaws

\* The node holds every transaction it accepted.  What it holds for a hash
\* that the interceptor neither tracks nor is about to look up is never
\* asked for again; the model keeps only that there was such a transaction.
Forgotten == [from |-> "", nonce |-> -1]

Asked(h, known, frames, pcs) ==
    \/ \E a \in Addrs : h \in known[a]
    \/ \E t \in Tasks : h \in frames[t].todo
    \/ \E t \in Tasks : pcs[t] = "lookup" /\ frames[t].h = h

Forget(held, known, frames, pcs) ==
    [h \in DOMAIN held |->
        IF Asked(h, known, frames, pcs) THEN held[h] ELSE Forgotten]

\* eth_getTransactionByHash(h): the transaction the node holds under h, null
\* when it does not know h (or does not answer for it), or a failure
LookupRaws(h) ==
    (IF h \in 1..Len(txs) /\ txs[h] # Forgotten
     THEN {ResultBytes(Txn(txs[h].from, txs[h].nonce))} ELSE {})
    \cup {ResultBytes(Null)} \cup FailRaws

\* eth_gasPrice, web3_sha3, eth_sign
PlainRaws == {ResultBytes(Hex(1))} \cup FailRaws

\* txn['nonce'], txn['from']: a dict has the member; None[...] is a TypeError
subscript(out) ==
    IF out.st # "ok" THEN out
    ELSE IF out.v.t = "txn" THEN out
    ELSE Fail("TypeError")

\* ------------------------------------------- BaseSendRawTransactionMixin
\* A transaction dict is a function from the keys it has to their values.
Fields == {"from", "to", "value", "data", "gas", "gasPrice", "nonce"}

OtherFields == Fields \ {"from", "nonce"}

Addr(a) == [t |-> "addr", n |-> 0, a |-> a]
Str(x) == [t |-> "str", n |-> 0, a |-> x]

\* the value a caller gives a field it supplies: none of the defaults
CallerValue(key) == [t |-> "caller", n |-> 7, a |-> key]

\* params[0] of request_blocking('eth_sendTransaction', params)
base_transaction(a, hasNonce, n) ==
    [key \in {"from"} \cup (IF hasNonce THEN {"nonce"} ELSE {})
              \cup extra_fields |->
        IF key = "from" THEN Addr(a)
        ELSE IF key = "nonce" THEN Hex(n)
        ELSE CallerValue(key)]

\* d[key] = value, whatever d held
setdefault_overwrites(d, key, value) ==
    [k \in DOMAIN d \cup {key} |-> IF k = key THEN value ELSE d[k]]

\* dict.setdefault(key, value): d is changed only when it has no such key
setdefault(d, key, value) ==
    IF key \in DOMAIN d THEN d
    ELSE [k \in DOMAIN d \cup {key} |-> IF k = key THEN value ELSE d[k]]

\* line 149, dict(**base_transaction): a new dict with the same members
\* (alias: whether a change of the one shows in the other)
dict_copy(d) == [alias |-> FALSE, d |-> d]

\* hex(90000)
DefaultGas == Hex(90000)

\* lines 149-158: the copy and the six setdefault calls, given what
\* get_nonce and the eth_gasPrice query returned; the result is the dict
\* returned and the dict the caller passed as it is afterwards
full_transaction(base, nonce, gas_price) ==
    LET c == dict_copy(base)
        d1 == setdefault(c.d, "nonce", nonce)
        d2 == setdefault(d1, "gasPrice", gas_price)
        d3 == setdefault(d2, "gas", DefaultGas)
        d4 == setdefault(d3, "value", Hex(0))
        d5 == setdefault(d4, "to", Str(""))
        d6 == setdefault(d5, "data", Str(""))
    IN [full |-> d6, base |-> IF c.alias THEN d6 ELSE base]

\* the default is computed only for a key that is missing
default_evaluated_lazily(present) == ~present

\* line 150-151: the argument of setdefault is evaluated before the call,
\* whether or not the key is there
default_evaluated(present) == TRUE

TXN_SENDING_METHODS ==
    {"eth_sendTransaction", "eth_sendRawTransaction",
     "personal_signAndSendTransaction", "personal_sendTransaction"}

\* no method is built and signed locally
Intercepted_never(method) == FALSE

\* line 168: the one method request_blocking builds, signs and re-dispatches
Intercepted(method) == method = "eth_sendTransaction"

\* a transaction whose nonce equals the chain nonce is kept
Confirmed_below(txn_nonce, chain_nonce) == txn_nonce < chain_nonce

\* line 117: a tracked transaction is dropped when its nonce is not above the
\* chain nonce
Confirmed(txn_nonce, chain_nonce) == txn_nonce <= chain_nonce

\* everything tracked under the address is dropped
discard_all(known, addr, txn_hash) == [known EXCEPT ![addr] = {}]

\* the hash is left where it is
discard_nothing(known, addr, txn_hash) == known

\* line 118: self._known_transactions[addr].discard(txn_hash)
discard(known, addr, txn_hash) ==
    [known EXCEPT ![addr] = @ \ {txn_hash}]

\* the hash replaces what was tracked under the address
add_alone(known, txn_from, result) == [known EXCEPT ![txn_from] = {result}]

\* the hash is not recorded
add_nothing(known, txn_from, result) == known

\* line 190: self._known_transactions[txn_from].add(result)
add(known, txn_from, result) ==
    [known EXCEPT ![txn_from] = @ \cup {result}]

\* max(0, *tracked_txn_nonces): the chain nonce left out
get_nonce_value_tracked_only(chain_nonce, tracked_txn_nonces) ==
    Max({0} \cup tracked_txn_nonces)

\* line 132: max(0, chain_nonce, *tracked_txn_nonces)
get_nonce_value(chain_nonce, tracked_txn_nonces) ==
    Max({0, chain_nonce} \cup tracked_txn_nonces)

\* the count of the wrapped manager alone
chain_nonce_value_wrapped(signer_nonce, wrapped_nonce) == wrapped_nonce

\* lines 122-127 (one query) and 199-208 (signer and wrapped manager)
chain_nonce_value(signer_nonce, wrapped_nonce) ==
    IF delegated THEN Max({signer_nonce, wrapped_nonce}) ELSE wrapped_nonce

\* line 150: setdefault('nonce', ...) keeps a nonce the caller supplied
full_txn_nonce(hasNonce, supplied, allocated) ==
    IF hasNonce THEN supplied ELSE allocated

Inner(method) == [to |-> "inner", m |-> method]
Signer(method) == [to |-> "signer", m |-> method]

\* the call ends with a value, or with the exception raised at pc[t]; an
\* exception unwinds the locals of the call
Finish(t, f, out) ==
    /\ pc' = [pc EXCEPT ![t] = "done"]
    /\ fr' = [fr EXCEPT ![t] =
                IF out.st = "ok"
                THEN [f EXCEPT !.res = out, !.at = pc[t]]
                ELSE [IdleFrame EXCEPT !.op = f.op, !.top = f.top, !.a = f.a,
                                       !.hasNonce = f.hasNonce,
                                       !.id = f.id, !.res = out,
                                       !.at = pc[t]]]

Goto(t, f, label) ==
    /\ pc' = [pc EXCEPT ![t] = label]
    /\ fr' = [fr EXCEPT ![t] = f]

\* the variables of the interceptor, its node and the spawned requests
held_vars == <<pending_requests, greenlets, next_id, timers, found,
               known_transactions, delegated, txs, hist, recording,
               extra_fields>>

\* request_blocking(method, params) on the interceptor (lines 167-191); for
\* a send, params[0] is {from: a} or {from: a, nonce: n}; for a raw send it is
\* the hex of a transaction signed by a with nonce n.
interceptor_request_blocking(t, method, a, hasNonce, n) ==
    /\ pc[t] = "idle"
    /\ LET f == [IdleFrame EXCEPT !.op = "request", !.top = method,
                                  !.m = method, !.a = a]
       IN IF Intercepted(method)
          THEN LET g == [f EXCEPT !.hasNonce = hasNonce, !.n = n,
                                  !.floor = -1,
                                  !.base = base_transaction(a, hasNonce, n)]
               IN IF default_evaluated(hasNonce)
                  THEN Goto(t, g,
                            IF delegated THEN "chain_signer" ELSE "chain")
                  ELSE Goto(t, [g EXCEPT !.nonce = n, !.n = 0], "gasprice")
          ELSE Goto(t, [f EXCEPT !.nonce = n], "forward")
    /\ UNCHANGED <<rm_vars, known_transactions, delegated, txs, hist>>

\* get_nonce(addr) called on the interceptor (lines 129-132)
get_nonce(t, a) ==
    /\ pc[t] = "idle"
    /\ Goto(t, [IdleFrame EXCEPT !.op = "get_nonce", !.a = a,
                                 !.floor = -1],
            IF delegated THEN "chain_signer" ELSE "chain")
    /\ UNCHANGED <<rm_vars, known_transactions, delegated, txs, hist>>

\* DelegatedSigningManager.get_chain_nonce, first query (lines 200-203)
get_chain_nonce_signer(t) ==
    /\ pc[t] = "chain_signer"
    /\ \E raw \in CountRaws :
          LET out == request_blocking(raw)
              f == [fr[t] EXCEPT
                      !.log = Append(@, Signer("eth_getTransactionCount"))]
          IN IF out.st = "ok"
             THEN Goto(t, [f EXCEPT !.sn = to_decimal(out.v)], "chain")
             ELSE Finish(t, f, out)
    /\ UNCHANGED <<rm_vars, known_transactions, delegated, txs, hist>>

\* get_nonce once the tracked nonces are all collected (line 132), and what
\* follows it: the value is returned to the caller of get_nonce, or
\* construct_full_transaction goes on to the eth_gasPrice query.
get_nonce_returns(t, f, hst) ==
    LET r == get_nonce_value(f.chain, f.coll)
        g == [f EXCEPT !.ret = r, !.todo = {}, !.coll = {}, !.n = 0,
                       !.nonce = full_txn_nonce(f.hasNonce, f.n, r)]
    IN /\ IF f.op = "get_nonce"
          THEN Finish(t, g, Ok(PyInt(r)))
          ELSE Goto(t, g, "gasprice")
       /\ hist' = Returned(hst, f.a, r)

\* get_chain_nonce, the query to the wrapped manager (lines 123-127 or
\* 204-208), then the start of _get_nonces_and_cleanup: the copy of the
\* tracked hashes (line 111) is taken without another suspension.
get_chain_nonce(t) ==
    /\ pc[t] = "chain"
    /\ \E raw \in CountRaws :
          LET out == request_blocking(raw)
              a == fr[t].a
              f == [fr[t] EXCEPT
                      !.log = Append(@, Inner("eth_getTransactionCount"))]
          IN IF out.st = "ok"
             THEN LET c == chain_nonce_value(f.sn, to_decimal(out.v))
                      hst == Observed(hist, a, c, known_transactions[a])
                      g == [f EXCEPT !.chain = c,
                                     !.floor = IF a = Watched THEN hst.floor
                                               ELSE -1,
                                     !.sn = IF recording = "counts"
                                            THEN @ ELSE -1,
                                     !.wn = IF recording = "counts"
                                            THEN to_decimal(out.v) ELSE -1,
                                     !.snap = known_transactions[a],
                                     !.todo = known_transactions[a]]
                  IN IF g.todo = {}
                     THEN get_nonce_returns(t, g, hst)
                     ELSE Goto(t, g, "prune") /\ hist' = hst
             ELSE /\ Finish(t, f, out)
                  /\ UNCHANGED hist
    /\ UNCHANGED <<rm_vars, known_transactions, delegated, txs>>

\* one turn of the loop of _get_nonces_and_cleanup (lines 112-120): look the
\* next hash of the copy up, drop it from the live set or collect its nonce.
\* The copy is a tuple of a set, so the order is any order.
get_nonces_and_cleanup(t) ==
    /\ pc[t] = "prune"
    /\ \E txn_hash \in fr[t].todo : \E raw \in LookupRaws(txn_hash) :
          LET out == subscript(request_blocking(raw))
              a == fr[t].a
              f == [fr[t] EXCEPT
                      !.log = Append(@, Inner("eth_getTransactionByHash"))]
          IN IF out.st = "ok"
             THEN LET txn_nonce == to_decimal(out.v)
                      drop == Confirmed(txn_nonce, f.chain)
                      g == [f EXCEPT !.todo = @ \ {txn_hash},
                                     !.coll = IF drop THEN @
                                              ELSE @ \cup {txn_nonce}]
                      hst == Examined(hist, a, txn_hash)
                  IN /\ known_transactions' =
                          IF drop
                          THEN discard(known_transactions, a, txn_hash)
                          ELSE known_transactions
                     /\ IF g.todo = {}
                        THEN get_nonce_returns(t, g, hst)
                        ELSE Goto(t, g, "prune") /\ hist' = hst
             ELSE /\ Finish(t, f, out)
                  /\ UNCHANGED <<known_transactions, hist>>
    /\ txs' = Forget(txs, known_transactions', fr', pc')
    /\ UNCHANGED <<rm_vars, delegated>>

\* construct_full_transaction after get_nonce: the eth_gasPrice query (lines
\* 151-153) and the defaults; then sign_and_serialize_transaction calls
\* get_transaction_signature, which the base class does not implement
\* (line 135).
construct_full_transaction(t) ==
    /\ pc[t] = "gasprice"
    /\ IF default_evaluated("gasPrice" \in DOMAIN fr[t].base)
       THEN \E raw \in PlainRaws :
          LET out == request_blocking(raw)
              f == [fr[t] EXCEPT !.log = Append(@, Inner("eth_gasPrice"))]
              r == full_transaction(f.base, PyInt(f.ret), out.v)
              g == [f EXCEPT !.full = r.full, !.base = r.base]
          IN IF out.st # "ok" THEN Finish(t, f, out)
             ELSE IF delegated THEN Goto(t, g, "sha3")
             ELSE Finish(t, g, Fail("NotImplementedError"))
       ELSE LET r == full_transaction(fr[t].base, PyInt(fr[t].ret), Null)
                g == [fr[t] EXCEPT !.full = r.full, !.base = r.base]
            IN IF delegated THEN Goto(t, g, "sha3")
               ELSE Finish(t, g, Fail("NotImplementedError"))
    /\ UNCHANGED <<rm_vars, known_transactions, delegated, txs, hist>>

\* DelegatedSigningManager.get_transaction_signature: web3_sha3 (lines
\* 212-214)
get_transaction_signature_sha3(t) ==
    /\ pc[t] = "sha3"
    /\ \E raw \in PlainRaws :
          LET out == request_blocking(raw)
              f == [fr[t] EXCEPT !.log = Append(@, Signer("web3_sha3"))]
          IN IF out.st = "ok" THEN Goto(t, f, "sign")
             ELSE Finish(t, f, out)
    /\ UNCHANGED <<rm_vars, known_transactions, delegated, txs, hist>>

\* eth_sign (lines 215-223), rlp.encode, encode_hex and the recursive
\* request_blocking('eth_sendRawTransaction', [hex]) of lines 177-179
get_transaction_signature_sign(t) ==
    /\ pc[t] = "sign"
    /\ \E raw \in PlainRaws :
          LET out == request_blocking(raw)
              f == [fr[t] EXCEPT !.log = Append(@, Signer("eth_sign"))]
          IN IF out.st = "ok"
             THEN Goto(t, [f EXCEPT !.m = "eth_sendRawTransaction"],
                       "forward")
             ELSE Finish(t, f, out)
    /\ UNCHANGED <<rm_vars, known_transactions, delegated, txs, hist>>

\* the methods for which the node creates a transaction and answers its hash
NodeSendMethods ==
    {"eth_sendTransaction", "eth_sendRawTransaction",
     "personal_signAndSendTransaction", "personal_sendTransaction"}

\* the nonces the node may give the transaction: the signed one of a raw
\* transaction, its own choice when it signs itself
NodeNonces(method, signed_nonce) ==
    IF method = "eth_sendRawTransaction" THEN {signed_nonce} ELSE Nonces

\* a failed call is sent again
after_forward_retry(method, out) ==
    IF out.st # "ok" THEN "forward"
    ELSE IF method \in TXN_SENDING_METHODS THEN "lookup"
    ELSE "done"

\* where request_blocking goes after super().request_blocking (lines
\* 181-184): an exception propagates and ends the call, the result of a
\* transaction-sending method is looked up, any other result is returned
after_forward(method, out) ==
    IF out.st # "ok" THEN "done"
    ELSE IF method \in TXN_SENDING_METHODS THEN "lookup"
    ELSE "done"

\* super().request_blocking(method, params) (lines 181-183): the wrapped
\* RequestManager sends the call to the provider.  The node accepts a
\* transaction (and answers its hash, or the answer is lost on the way) or
\* refuses it.
forward(t) ==
    /\ pc[t] = "forward"
    /\ LET method == fr[t].m
           f == [fr[t] EXCEPT !.log = Append(@, Inner(method))]
           Then(raw) ==
               LET out == request_blocking(raw)
                   nxt == after_forward(method, out)
               IN IF nxt = "done"
                  THEN Finish(t, f, out)
                  ELSE Goto(t, [f EXCEPT !.h = out.v.n], nxt)
       IN IF method \in NodeSendMethods
          THEN \/ /\ Len(txs) < MaxTxs
                  /\ \E raw \in {ResultBytes(HashStr(Len(txs) + 1)), Raise} :
                        Then(raw)
                  /\ \E nn \in NodeNonces(method, f.nonce) :
                        txs' = Forget(Append(txs, [from |-> f.a,
                                                   nonce |-> nn]),
                                      known_transactions, fr', pc')
               \/ /\ \E raw \in FailRaws : Then(raw)
                  /\ UNCHANGED txs
          ELSE /\ \E raw \in PlainRaws : Then(raw)
               /\ UNCHANGED txs
    /\ UNCHANGED <<rm_vars, known_transactions, delegated, hist>>

\* lines 185-191: eth_getTransactionByHash of the result, its 'from', and the
\* hash is added to the tracked set of that address
track(t) ==
    /\ pc[t] = "lookup"
    /\ \E raw \in LookupRaws(fr[t].h) :
          LET out == subscript(request_blocking(raw))
              result == fr[t].h
              f == [fr[t] EXCEPT
                      !.log = Append(@, Inner("eth_getTransactionByHash"))]
          IN IF out.st = "ok"
             THEN LET txn_from == out.v.a
                  IN /\ known_transactions' =
                          add(known_transactions, txn_from, result)
                     /\ hist' = Added(hist, txn_from, result)
                     /\ Finish(t, f, Ok(HashStr(result)))
             ELSE /\ Finish(t, f, out)
                  /\ UNCHANGED <<known_transactions, hist>>
    /\ txs' = Forget(txs, known_transactions', fr', pc')
    /\ UNCHANGED <<rm_vars, delegated>>

\* the call is over: its value or exception is with the caller
return(t) ==
    /\ pc[t] = "done"
    /\ pc' = [pc EXCEPT ![t] = "idle"]
    /\ fr' = [fr EXCEPT ![t] = IdleFrame]
    /\ UNCHANGED <<rm_vars, known_transactions, delegated, txs, hist>>

\* the methods a caller sends besides the two above: the node signs and
\* sends, or just answers
PassedMethods ==
    {"personal_signAndSendTransaction", "personal_sendTransaction",
     "eth_gasPrice"}

\* the interceptor used by one caller, one call after the other
Caller == "t1"

Next ==
    \/ \E a \in Addrs :
          \/ interceptor_request_blocking(Caller, "eth_sendTransaction", a,
                                          FALSE, 0)
          \/ \E n \in Nonces :
                interceptor_request_blocking(Caller, "eth_sendTransaction",
                                             a, TRUE, n)
          \/ \E n \in Nonces :
                interceptor_request_blocking(Caller, "eth_sendRawTransaction",
                                             a, TRUE, n)
          \/ \E method \in PassedMethods :
                interceptor_request_blocking(Caller, method, a, FALSE, 0)
    \/ \E a \in Addrs : get_nonce(Caller, a)
    \/ get_chain_nonce_signer(Caller)
    \/ get_chain_nonce(Caller)
    \/ get_nonces_and_cleanup(Caller)
    \/ construct_full_transaction(Caller)
    \/ get_transaction_signature_sha3(Caller)
    \/ get_transaction_signature_sign(Caller)
    \/ forward(Caller)
    \/ track(Caller)
    \/ return(Caller)

Spec == Init /\ [][Next]_vars

\* the same program with the history of get_nonce's return values recorded
InitFloor == Start /\ recording = "floor" /\ extra_fields = {} /\ OneLayer

SpecFloor == InitFloor /\ [][Next]_vars

\* the same program with the unexamined tracked hashes recorded
InitUnexamined ==
    Start /\ recording = "unexamined" /\ extra_fields = {} /\ OneLayer

SpecUnexamined == InitUnexamined /\ [][Next]_vars

\* the same program with the two counts of get_chain_nonce kept in the frame
\* of the call (sn, wn) until it is over
InitCounts == Start /\ recording = "counts" /\ extra_fields = {} /\ OneLayer

SpecCounts == InitCounts /\ [][Next]_vars

\* One interceptor used by two cooperative tasks that interleave at their RPC
\* calls: Pruner calls get_nonce(Watched) while Sender sends raw transactions
\* of Watched, which are tracked.
Pruner == "t1"
Sender == "t2"

NextCoop ==
    \/ get_nonce(Pruner, Watched)
    \/ get_chain_nonce_signer(Pruner)
    \/ get_chain_nonce(Pruner)
    \/ get_nonces_and_cleanup(Pruner)
    \/ \E n \in Nonces :
          interceptor_request_blocking(Sender, "eth_sendRawTransaction",
                                       Watched, TRUE, n)
    \/ forward(Sender)
    \/ track(Sender)
    \/ \E t \in Tasks : return(t)

\* the hashes added while a prune pass is under way are recorded
InitAdded == Start /\ recording = "added" /\ extra_fields = {} /\ OneLayer

SpecCoop == InitAdded /\ [][NextCoop]_vars

\* Two cooperative tasks that both send transactions of Watched with no nonce
\* through one interceptor.
NextCoopSends ==
    \E t \in Tasks :
        \/ interceptor_request_blocking(t, "eth_sendTransaction", Watched,
                                        FALSE, 0)
        \/ get_chain_nonce_signer(t)
        \/ get_chain_nonce(t)
        \/ get_nonces_and_cleanup(t)
        \/ construct_full_transaction(t)
        \/ get_transaction_signature_sha3(t)
        \/ get_transaction_signature_sign(t)
        \/ forward(t)
        \/ track(t)
        \/ return(t)

SpecCoopSends == Init /\ [][NextCoopSends]_vars

\* the interceptor used for nothing but request_blocking('eth_sendTransaction',
\* [{from: a}]) calls, no nonce supplied
NextSends ==
    \/ \E a \in Addrs :
          interceptor_request_blocking(Caller, "eth_sendTransaction", a,
                                       FALSE, 0)
    \/ get_chain_nonce_signer(Caller)
    \/ get_chain_nonce(Caller)
    \/ get_nonces_and_cleanup(Caller)
    \/ construct_full_transaction(Caller)
    \/ get_transaction_signature_sha3(Caller)
    \/ get_transaction_signature_sign(Caller)
    \/ forward(Caller)
    \/ track(Caller)
    \/ return(Caller)

SpecSends == Init /\ [][NextSends]_vars

\* the interceptor used for request_blocking('eth_sendTransaction', [base])
\* calls whose base carries any of the optional fields
SuppliedFields ==
    {{}, {"gasPrice"}, {"gas", "to"}, {"value", "data"},
     {"gasPrice", "gas", "value"}, OtherFields}

InitConstruct ==
    Start /\ recording = "off" /\ extra_fields \in SuppliedFields /\ OneLayer

NextConstruct ==
    \/ \E a \in Addrs :
          \/ interceptor_request_blocking(Caller, "eth_sendTransaction", a,
                                          FALSE, 0)
          \/ \E n \in Nonces :
                interceptor_request_blocking(Caller, "eth_sendTransaction",
                                             a, TRUE, n)
    \/ get_chain_nonce_signer(Caller)
    \/ get_chain_nonce(Caller)
    \/ get_nonces_and_cleanup(Caller)
    \/ construct_full_transaction(Caller)
    \/ get_transaction_signature_sha3(Caller)
    \/ get_transaction_signature_sign(Caller)
    \/ forward(Caller)
    \/ track(Caller)
    \/ return(Caller)

SpecConstruct == InitConstruct /\ [][NextConstruct]_vars

\* ---------------------------------------------------------- RequestManager
\* what a provider may answer to a spawned request
AsyncRaws ==
    {ResultBytes(Hex(1)), ResultBytes(Txn("0xAA", 1)),
     ResultBytes(JsonStr("result", 1)), ResultBytes(JsonStr("error", 1)),
     ErrorBytes(Msg(1)), Bytes(TRUE, Hex(1), TRUE, Msg(1)),
     Bytes(FALSE, Null, FALSE, Null), Garbage, Raise}

AsyncMethods == {"eth_sendTransaction"}

\* a lookup that leaves the entry in place
pop_keeps(pending, request_id) == pending

\* line 54: self.pending_requests.pop(request_id)
pop(pending, request_id) == pending \ {request_id}

\* request_async (lines 43-50), reached through ManagerWrapper.request_async
\* (lines 92-93) unchanged: a fresh id, a spawned greenlet stored under it
request_async(t, method) ==
    /\ pc[t] = "idle"
    /\ next_id <= MaxRequests
    /\ pending_requests' = pending_requests \cup {next_id}
    /\ greenlets' = [greenlets EXCEPT ![next_id] =
                       [NoGreenlet EXCEPT !.st = "spawned", !.m = method]]
    /\ next_id' = next_id + 1
    /\ UNCHANGED <<timers, found, pc, fr, txn_vars>>

\* the spawned greenlet goes through the interceptor's request_blocking
spawned_request_intercepted(method) ==
    IF method = "eth_sendTransaction" THEN "eth_sendRawTransaction"
    ELSE method

\* lines 45-49 behind lines 92-93: the greenlet is spawned by the
\* RequestManager with its own request_blocking, which hands the method to
\* provider.make_request as it got it
spawned_request(method) == method

\* the spawned greenlet runs RequestManager.request_blocking (lines 30-41) to
\* its end: make_request, json.loads, the error check
greenlet_runs(request_id) ==
    /\ greenlets[request_id].st = "spawned"
    /\ \E raw \in AsyncRaws :
          greenlets' = [greenlets EXCEPT ![request_id] =
                          [@ EXCEPT !.st = "done", !.raw = raw,
                                    !.sent = spawned_request(
                                                 greenlets[request_id].m),
                                    !.out = request_blocking(raw)]]
    /\ UNCHANGED <<pending_requests, next_id, timers, found, pc, fr, txn_vars>>

\* receive_blocking up to request.get (lines 52-60): the pop or the KeyError,
\* then gevent.Timeout(timeout).start() arms a timer for the caller; start()
\* returns None, so request.get waits with timeout=None.
receive_blocking(t, request_id, timed) ==
    /\ pc[t] = "idle"
    /\ LET f == [IdleFrame EXCEPT !.op = "receive", !.id = request_id]
       IN IF request_id \in pending_requests
          THEN /\ pending_requests' = pop(pending_requests, request_id)
               /\ found' = [found EXCEPT ![request_id] = @ + 1]
               /\ timers' = [timers EXCEPT ![t] =
                               IF timed THEN @ \cup {request_id} ELSE @]
               /\ Goto(t, f, "rx_wait")
          ELSE /\ Finish(t, f, Fail("KeyError"))
               /\ UNCHANGED <<pending_requests, found, timers>>
    /\ UNCHANGED <<greenlets, next_id, txn_vars>>

\* request.get returns once the greenlet is over, and lines 62-67 decode
\* what it returned
receive_blocking_get(t) ==
    /\ pc[t] = "rx_wait"
    /\ greenlets[fr[t].id].st = "done"
    /\ Finish(t, fr[t], receive_decode(greenlets[fr[t].id].out))
    /\ UNCHANGED <<rm_vars, txn_vars>>

\* the greenlet of the request is killed when the caller's wait times out
on_timeout_kills(spawned, request_id) ==
    [spawned EXCEPT ![request_id] =
        [@ EXCEPT !.st = IF @ = "spawned" THEN "killed" ELSE @]]

\* lines 58-60: the Timeout is raised in the greenlet that called start(),
\* the caller of receive_blocking; nothing touches the greenlets spawned for
\* the requests
on_timeout(spawned, request_id) == spawned

\* an armed gevent.Timeout expires: it is raised in the greenlet that armed
\* it, wherever that greenlet is.  Inside receive_blocking the call ends
\* with the Timeout; the greenlet of the request is left running.
timeout_expires(t, request_id) ==
    /\ request_id \in timers[t]
    /\ timers' = [timers EXCEPT ![t] = @ \ {request_id}]
    /\ IF pc[t] = "rx_wait"
       THEN Finish(t, fr[t], Fail("Timeout"))
       ELSE /\ pc' = [pc EXCEPT ![t] = "done"]
            /\ fr' = [fr EXCEPT ![t] =
                        [IdleFrame EXCEPT !.op = "caller", !.id = request_id,
                                          !.res = Fail("Timeout"),
                                          !.at = pc[t]]]
    /\ greenlets' = on_timeout(greenlets, request_id)
    /\ UNCHANGED <<pending_requests, next_id, found, txn_vars>>

NextAsync ==
    \/ \E t \in Tasks, method \in AsyncMethods : request_async(t, method)
    \/ \E request_id \in RequestIds : greenlet_runs(request_id)
    \/ \E t \in Tasks, request_id \in RequestIds, timed \in BOOLEAN :
          receive_blocking(t, request_id, timed)
    \/ \E t \in Tasks : receive_blocking_get(t)
    \/ \E t \in Tasks, request_id \in RequestIds :
          timeout_expires(t, request_id)
    \/ \E t \in Tasks : return(t)

\* the RequestManager used by two callers
SpecAsync == Init /\ [][NextAsync]_vars

\* request_async and receive_blocking called on the interceptor by one
\* caller, for every method
ForwardedMethods == TXN_SENDING_METHODS \cup {"eth_gasPrice"}

NextForwarded ==
    \/ \E method \in ForwardedMethods : request_async(Caller, method)
    \/ \E request_id \in RequestIds : greenlet_runs(request_id)
    \/ \E request_id \in RequestIds, timed \in BOOLEAN :
          receive_blocking(Caller, request_id, timed)
    \/ receive_blocking_get(Caller)
    \/ \E request_id \in RequestIds : timeout_expires(Caller, request_id)
    \/ return(Caller)

SpecForwarded == Init /\ [][NextForwarded]_vars

\* the same under fair scheduling of the spawned greenlets and a provider
\* that answers: a greenlet that can run does run
SpecAsyncFair ==
    SpecAsync /\ \A request_id \in RequestIds :
                    WF_vars(greenlet_runs(request_id))

\* ----------------------------------------------------------- ManagerWrapper
\* A chain is layer 0, the RequestManager, under the ManagerWrappers 1..layers;
\* the wrapped_manager of layer k is layer k - 1.
Providers == {"p1", "p2", "p3"}

\* deepest chain
MaxDepth == 3

\* the provider attribute read at layer k: RequestManager.provider (line 25),
\* or the property of lines 78-80, which reads wrapped_manager.provider
RECURSIVE provider_view(_, _)
provider_view(held, k) ==
    IF k = 0 THEN held ELSE provider_view(held, k - 1)

\* `obj.provider = p` for the object at layer k: the attribute of a
\* RequestManager is set; ManagerWrapper.provider is a property without a
\* setter, and the assignment raises AttributeError
assign_provider(held, k, p) ==
    IF k = 0 THEN [st |-> "ok", provider |-> p]
    ELSE [st |-> "AttributeError", provider |-> held]

\* setProvider(p) called on layer k: RequestManager.setProvider (lines
\* 27-28) or ManagerWrapper.setProvider (lines 85-86)
set_provider(held, k, p) ==
    IF k = 0 THEN assign_provider(held, 0, p)
    ELSE assign_provider(held, k - 1, p)

\* what provider p answers a request with: the model lets it sign its answer
Served(p) == Str(p)

\* setProvider(p) on the outermost layer
setProvider(t, p) ==
    /\ pc[t] = "idle"
    /\ LET r == set_provider(provider, layers, p)
           f == [IdleFrame EXCEPT !.op = "setProvider", !.a = p,
                                  !.id = layers]
       IN /\ provider' = r.provider
          /\ Finish(t, f, IF r.st = "ok" THEN Ok(Null) ELSE Fail(r.st))
    /\ UNCHANGED <<held_vars, layers>>

\* the provider attribute read at layer k
read_provider(t, k) ==
    /\ pc[t] = "idle"
    /\ k \in 0..layers
    /\ Finish(t, [IdleFrame EXCEPT !.op = "provider", !.id = k],
              Ok(Str(provider_view(provider, k))))
    /\ UNCHANGED <<held_vars, layers, provider>>

\* request_blocking on the outermost layer: lines 88-89 at every wrapper,
\* then RequestManager.request_blocking with self.provider
chain_request_blocking(t) ==
    /\ pc[t] = "idle"
    /\ \E raw \in {ResultBytes(Served(provider_view(provider, 0))), Raise} :
          Finish(t, [IdleFrame EXCEPT !.op = "chain_request", !.id = layers],
                 request_blocking(raw))
    /\ UNCHANGED <<held_vars, layers, provider>>

InitChain ==
    /\ Start /\ recording = "off" /\ extra_fields = {}
    /\ layers \in 1..MaxDepth
    /\ provider \in Providers

NextChain ==
    \/ \E t \in Tasks, p \in Providers : setProvider(t, p)
    \/ \E t \in Tasks, k \in 0..MaxDepth : read_provider(t, k)
    \/ \E t \in Tasks : chain_request_blocking(t)
    \/ \E t \in Tasks : return(t)

SpecChain == InitChain /\ [][NextChain]_vars

\* ------------------------------------------------------------------ claims
\* receive_blocking(t) has returned or raised after request.get came back
\* (not with the KeyError of the pop, not with a Timeout)
Received(t) ==
    /\ pc[t] = "done"
    /\ fr[t].op = "receive"
    /\ fr[t].at = "rx_wait"
    /\ fr[t].res.st # "Timeout"

\* the envelope the provider answered the request of id with, decoded
Envelope(request_id) == json_loads(force_text(greenlets[request_id].raw))

\* C1: receive_blocking decodes like request_blocking: when the provider's
\* answer to the request of an id is an envelope with a result v and no
\* error, receive_blocking(id) returns v, the value request_blocking returns
\* for that answer; when the envelope has an error e, it raises the RPC
\* error carrying e.
C1_ReceiveDecodesLikeRequest ==
    \A t \in Tasks :
        Received(t) /\ Envelope(fr[t].id).st = "ok" =>
            LET e == Envelope(fr[t].id)
            IN /\ e.hasResult /\ ~e.hasError =>
                    /\ fr[t].res = Ok(e.result)
                    /\ fr[t].res = request_blocking(greenlets[fr[t].id].raw)
               /\ e.hasError => fr[t].res = RPCError(e.error)

\* C2 (state part): at most one receive_blocking call finds an id in
\* pending_requests, and the id is out of pending_requests while that call
\* waits.
C2_FoundAtMostOnce ==
    /\ \A i \in RequestIds : found[i] <= 1
    /\ \A t \in Tasks : pc[t] = "rx_wait" => fr[t].id \notin pending_requests

\* C2 (step part): a receive_blocking call for an id that is not (or no
\* longer) in pending_requests raises KeyError and leaves pending_requests
\* as it was; a call that finds its id removes just that id in the same
\* step.
C2_ReceiveStep ==
    \A t \in Tasks :
        pc[t] = "idle" /\ pc'[t] # "idle" /\ fr'[t].op = "receive" =>
            IF fr'[t].id \in pending_requests
            THEN /\ pc'[t] = "rx_wait"
                 /\ pending_requests' = pending_requests \ {fr'[t].id}
            ELSE /\ pc'[t] = "done"
                 /\ fr'[t].res.st = "KeyError"
                 /\ pending_requests' = pending_requests

\* C2: retrieval is single-consumer: over any sequence or interleaving of
\* receive_blocking(id) calls at most one finds the id, that one removes it
\* before it waits, and every other call (earlier finished, later or
\* concurrent, whatever became of the first) raises KeyError and leaves
\* pending_requests unchanged.
C2_SingleConsumer == []C2_FoundAtMostOnce /\ [][C2_ReceiveStep]_vars

\* C2 witness: an id was found once, its retrieval is over or still waiting,
\* and another call for the same id has raised KeyError.
C2_Witness ==
    \E t \in Tasks, u \in Tasks :
        /\ t # u
        /\ pc[t] = "done" /\ fr[t].op = "receive" /\ fr[t].res.st = "KeyError"
        /\ pc[u] = "rx_wait" /\ fr[u].id = fr[t].id
        /\ found[fr[t].id] = 1

\* ---- the interceptor
\* request_blocking('eth_sendTransaction', ...) is running in t or is over
SendTxn(t) == fr[t].op = "request" /\ fr[t].top = "eth_sendTransaction"

\* get_nonce has just returned in t: to construct_full_transaction, which is
\* about to ask for the gas price, or to the caller of get_nonce
GetNonceReturned(t) ==
    \/ pc[t] = "gasprice"
    \/ pc[t] = "done" /\ fr[t].op = "get_nonce" /\ fr[t].res.st = "ok"

\* the nonce eth_getTransactionByHash resolves a hash the node holds to
NonceOf(h) == txs[h].nonce

\* C3: when get_nonce has allocated the nonce of a transaction sent with no
\* nonce supplied, the nonce is strictly greater than the nonce of every
\* earlier transaction still tracked under the same address.
C3_AllocatedAboveTracked ==
    \A t \in Tasks :
        pc[t] = "gasprice" /\ SendTxn(t) /\ ~fr[t].hasNonce =>
            \A h \in known_transactions[fr[t].a] : fr[t].nonce > NonceOf(h)

\* C4: the value get_nonce(addr) returns is max(0, chain nonce of that call,
\* the nonces of the hashes tracked under addr at the call that are above
\* that chain nonce); it is never below the chain nonce; chain nonce 5 with
\* tracked nonces {6, 8} gives 8.
C4_GetNonceIsMax ==
    /\ get_nonce_value(5, {6, 8}) = 8
    /\ \A t \in Tasks :
          GetNonceReturned(t) =>
              LET unconfirmed == {h \in fr[t].snap : NonceOf(h) > fr[t].chain}
              IN /\ fr[t].ret =
                        Max({0, fr[t].chain} \cup {NonceOf(h) : h \in unconfirmed})
                 /\ fr[t].ret >= fr[t].chain
                 /\ fr[t].op = "get_nonce" => fr[t].res = Ok(PyInt(fr[t].ret))

\* C4 witness: get_nonce returned the nonce of a tracked transaction, above
\* the chain nonce of the call.
C4_Witness ==
    \E t \in Tasks :
        /\ pc[t] = "done" /\ fr[t].op = "get_nonce" /\ fr[t].res.st = "ok"
        /\ fr[t].ret > fr[t].chain
        /\ \E h \in fr[t].snap : NonceOf(h) = fr[t].ret

\* C5: a get_nonce(addr) call returns no less than the successful call
\* before it did, when the chain nonce has not decreased from one
\* observation to the next since (fr.floor is that earlier value, -1 when
\* there is none), whatever was sent in between; and it returns no less than
\* the chain nonce reported in the call.
C5_GetNonceMonotone ==
    \A t \in Tasks :
        GetNonceReturned(t) /\ fr[t].a = Watched =>
            /\ fr[t].floor >= 0 => fr[t].ret >= fr[t].floor
            /\ fr[t].ret >= fr[t].chain

\* C5 witness: a later get_nonce returned more than the one before it, with
\* transactions tracked in between.
C5_Witness ==
    \E t \in Tasks :
        /\ GetNonceReturned(t) /\ fr[t].a = Watched
        /\ fr[t].floor >= 0
        /\ fr[t].ret > fr[t].floor
        /\ fr[t].snap # {}

\* no call is inside the interceptor
Quiet == \A t \in Tasks : pc[t] \in {"idle", "done"}

\* C6 as stated: between calls, no hash tracked under an address has a nonce
\* at or below the latest chain nonce observed for that address.
C6_NoStaleHash ==
    Quiet /\ hist.chain >= 0 =>
        \A h \in known_transactions[Watched] : NonceOf(h) > hist.chain

\* C6 amended: the hashes tracked under an address that the prune pass of
\* the latest get_nonce for it has examined have nonces above the chain
\* nonce observed in that call.  (The hashes added by sends since, and those
\* a failed pass did not reach, stay until a later get_nonce examines them.)
C6_NoStaleExaminedHash ==
    hist.chain >= 0 =>
        \A h \in known_transactions[Watched] \ hist.unex :
            NonceOf(h) > hist.chain

\* C6 witness: a hash examined and kept, next to a hash added since whose
\* nonce is not above the latest observed chain nonce.
C6_Witness ==
    /\ Quiet
    /\ hist.chain >= 0
    /\ \E h \in known_transactions[Watched] \ hist.unex : NonceOf(h) > hist.chain
    /\ \E h \in known_transactions[Watched] \cap hist.unex :
          NonceOf(h) <= hist.chain

\* C7 (state part): while get_nonce prunes, every hash of the copy it has
\* examined and left tracked has a nonce above the chain nonce of the call
\* and the hashes still to examine are tracked; when it has returned, no
\* hash tracked under the address has a nonce at or below that chain nonce.
C7_PrunedOnReturn ==
    \A t \in Tasks :
        /\ pc[t] = "prune" =>
              /\ fr[t].todo # {}
              /\ fr[t].todo \subseteq fr[t].snap
              /\ fr[t].todo \subseteq known_transactions[fr[t].a]
              /\ \A h \in known_transactions[fr[t].a] \ fr[t].todo :
                    NonceOf(h) > fr[t].chain
        /\ GetNonceReturned(t) =>
              /\ known_transactions[fr[t].a] \subseteq fr[t].snap
              /\ \A h \in known_transactions[fr[t].a] : NonceOf(h) > fr[t].chain

\* C7 (step part): a hash leaves the tracked set only in a turn of the prune
\* loop of get_nonce for its address, and only when its nonce is at or below
\* the chain nonce of that call; get_nonce returns from the loop only in the
\* turn that examines the last hash of the copy.
C7_PruneStep ==
    /\ \A a \in Addrs : \A h \in known_transactions[a] :
          h \notin known_transactions'[a] =>
              \E t \in Tasks :
                  /\ pc[t] = "prune" /\ a = fr[t].a /\ h \in fr[t].todo
                  /\ NonceOf(h) <= fr[t].chain
    /\ \A t \in Tasks :
          pc[t] = "prune" /\ pc'[t] # "prune" /\ fr'[t].res.st \in {"ok", "none"}
          => Cardinality(fr[t].todo) = 1

\* C7: after a get_nonce(addr) that returns, no hash tracked under addr has a
\* nonce at or below the chain nonce of the call, and every hash tracked
\* before the call with a nonce above it is still tracked: the prune pass
\* has gone over the whole tracked set.
C7_PruneComplete == []C7_PrunedOnReturn /\ [][C7_PruneStep]_vars

\* C7 witness: get_nonce returned after it dropped one tracked hash and kept
\* another.
C7_Witness ==
    \E t \in Tasks :
        /\ GetNonceReturned(t)
        /\ known_transactions[fr[t].a] # {}
        /\ fr[t].snap \ known_transactions[fr[t].a] # {}

\* the places of an entry in the log of the calls t's request has made
Positions(t, e) == {i \in 1..Len(fr[t].log) : fr[t].log[i] = e}

\* the calls an intercepted send makes to the inner manager
InnerQueries ==
    {"eth_getTransactionCount", "eth_getTransactionByHash", "eth_gasPrice",
     "eth_sendRawTransaction"}

\* C8: request_blocking('eth_sendTransaction') never forwards
\* eth_sendTransaction: the inner manager gets only the nonce, lookup and
\* gas-price queries and at most one eth_sendRawTransaction, exactly one
\* when the call returns, sent after the gas-price query and the signature,
\* carrying the sender and nonce of the constructed transaction; the value
\* returned is the hash that call answered.
C8_SentRawOnce ==
    \A t \in Tasks :
        SendTxn(t) =>
            LET raw == Positions(t, Inner("eth_sendRawTransaction"))
            IN /\ \A i \in 1..Len(fr[t].log) :
                     fr[t].log[i].to = "inner" => fr[t].log[i].m \in InnerQueries
               /\ pc[t] = "forward" => fr[t].m = "eth_sendRawTransaction"
               /\ Cardinality(raw) <= 1
               /\ \A i \in raw :
                     /\ \E j \in 1..(i - 1) : fr[t].log[j] = Inner("eth_gasPrice")
                     /\ \E j \in 1..(i - 1) : fr[t].log[j] = Signer("eth_sign")
               /\ pc[t] = "lookup" =>
                     /\ Cardinality(raw) = 1
                     /\ txs[fr[t].h] = [from |-> fr[t].a, nonce |-> fr[t].nonce]
               /\ pc[t] = "done" /\ fr[t].res.st = "ok" =>
                     /\ Cardinality(raw) = 1
                     /\ fr[t].res = Ok(HashStr(fr[t].h))

\* C8 witness: an intercepted send has returned the hash of its raw send.
C8_Witness ==
    \E t \in Tasks :
        /\ SendTxn(t) /\ pc[t] = "done" /\ fr[t].res.st = "ok"
        /\ Positions(t, Inner("eth_sendRawTransaction")) # {}

\* C9: when request_blocking returns for eth_sendTransaction,
\* eth_sendRawTransaction, personal_signAndSendTransaction or
\* personal_sendTransaction, the hash it returns is tracked under the 'from'
\* address the node reports for it.
C9_ReturnedHashTracked ==
    \A t \in Tasks :
        /\ pc[t] = "done" /\ fr[t].op = "request" /\ fr[t].res.st = "ok"
        /\ fr[t].top \in {"eth_sendTransaction", "eth_sendRawTransaction",
                          "personal_signAndSendTransaction",
                          "personal_sendTransaction"}
        => /\ fr[t].res = Ok(HashStr(fr[t].h))
           /\ fr[t].h \in 1..Len(txs)
           /\ txs[fr[t].h].from \in Addrs
           /\ fr[t].h \in known_transactions[txs[fr[t].h].from]

\* C9 witness: a send of {from: 0xAA} returned a hash that is tracked under
\* 0xAA.
C9_Witness ==
    \E t \in Tasks :
        /\ SendTxn(t) /\ pc[t] = "done" /\ fr[t].res.st = "ok"
        /\ fr[t].a = "0xAA"
        /\ fr[t].h \in known_transactions["0xAA"]

\* the exceptions the inner manager's request_blocking raises
BroadcastErrors == {"TransportError", "DecodeError", "RPCError"}

\* C10: when the eth_sendRawTransaction of an intercepted send raises, the
\* call ends in that step with that exception (it is not sent again), and
\* the tracked sets are what they were: the nonce is not recorded, and the
\* next get_nonce, which reads only the chain nonce and the tracked sets,
\* can return it again.
C10_BroadcastFailureStep ==
    \A t \in Tasks :
        pc[t] = "forward" /\ SendTxn(t) /\ pc'[t] # "lookup" =>
            /\ pc'[t] = "done"
            /\ fr'[t].res.st \in BroadcastErrors
            /\ fr'[t].top = "eth_sendTransaction"
            /\ known_transactions' = known_transactions

\* C10: a failed broadcast of an intercepted send propagates at once, is not
\* retried and leaves the tracked sets untouched, in every step of every
\* behaviour.
C10_BroadcastFailure == [][C10_BroadcastFailureStep]_vars

\* C10 witness: an intercepted send ended with the exception of its
\* broadcast while a transaction sent earlier is tracked.
C10_Witness ==
    \E t \in Tasks :
        /\ SendTxn(t) /\ pc[t] = "done" /\ fr[t].at = "forward"
        /\ fr[t].res.st \in BroadcastErrors
        /\ known_transactions[fr[t].a] # {}

\* ---- construct_full_transaction
\* construct_full_transaction has returned in t (the signature is next)
Constructed(t) == SendTxn(t) /\ pc[t] = "sha3"

\* the documented default of a field, in the call t is in
DefaultOf(t, key) ==
    CASE key = "nonce" -> PyInt(fr[t].ret)
      [] key = "gasPrice" -> Hex(1)
      [] key = "gas" -> [t |-> "hex", n |-> 90000, a |-> ""]
      [] key = "value" -> Hex(0)
      [] OTHER -> Str("")

\* C11: construct_full_transaction(base) returns a dict with the seven
\* fields from, to, value, data, gas, gasPrice, nonce, in which every field
\* of base has the value base gave it and every other field its default
\* (nonce: what get_nonce returned, gasPrice: what eth_gasPrice answered,
\* gas 0x15f90 = 90000, value 0x0, to '', data ''), and base is as the caller
\* passed it.
C11_FullTransaction ==
    \A t \in Tasks :
        Constructed(t) =>
            LET passed ==
                    base_transaction(fr[t].a, fr[t].hasNonce, fr[t].nonce)
            IN /\ fr[t].base = passed
               /\ DOMAIN fr[t].full = Fields
               /\ \A key \in Fields :
                     fr[t].full[key] =
                         IF key \in DOMAIN passed THEN passed[key]
                         ELSE DefaultOf(t, key)

\* C11 witness: a transaction constructed from a base that supplies some of
\* the optional fields and leaves others, the nonce among them, to their
\* defaults.
C11_Witness ==
    \E t \in Tasks :
        /\ Constructed(t)
        /\ ~fr[t].hasNonce
        /\ "gas" \in DOMAIN fr[t].base
        /\ "gasPrice" \notin DOMAIN fr[t].base
        /\ fr[t].full["nonce"] = PyInt(1)

\* ---- RequestManager.request_blocking
\* C12 (state part): for every request whose answer decoded to a response
\* object, request_blocking raised the RPC error carrying the error member
\* exactly when the response has one (also next to a result member), and
\* returned the result member when the response has no error member (a
\* response with neither member makes response['result'] raise KeyError);
\* it returned no value for a response with an error member.
C12_ResultOrError ==
    \A i \in RequestIds :
        greenlets[i].st = "done" /\ greenlets[i].raw.t = "bytes" =>
            LET raw == greenlets[i].raw
                out == greenlets[i].out
            IN /\ out.st = "RPCError" <=> raw.hasError
               /\ raw.hasError => out = RPCError(raw.error)
               /\ ~raw.hasError /\ raw.hasResult => out = Ok(raw.result)
               /\ ~raw.hasError /\ ~raw.hasResult => out = Fail("KeyError")
               /\ out.st = "ok" => ~raw.hasError

\* C12 (step part): a request is sent to the provider once: what the
\* provider answered and what request_blocking made of it never change.
C12_SentOnce ==
    \A i \in RequestIds :
        greenlets[i].st = "done" => greenlets'[i] = greenlets[i]

\* C12: request_blocking returns the result member exactly when the decoded
\* response has no error member, raises the RPC error with the error payload
\* exactly when it has one, and does not retry.
C12_RequestBlocking == []C12_ResultOrError /\ [][C12_SentOnce]_vars

\* C12 witness: a response with both members has raised the RPC error.
C12_Witness ==
    \E i \in RequestIds :
        /\ greenlets[i].st = "done"
        /\ greenlets[i].raw.t = "bytes"
        /\ greenlets[i].raw.hasResult /\ greenlets[i].raw.hasError
        /\ greenlets[i].out = RPCError(Msg(1))

\* ---- timeouts
\* receive_blocking(request_id, timeout) has failed in t with the Timeout
TimedOut(t, request_id) ==
    /\ pc[t] = "done"
    /\ fr[t].op = "receive" /\ fr[t].id = request_id
    /\ fr[t].res.st = "Timeout"

\* C13 (step part): the expiry of a caller's timeout leaves every spawned
\* task as it is.
C13_NotCancelled ==
    (\E t \in Tasks : timers'[t] # timers[t] /\ timers'[t] \subseteq timers[t])
        => greenlets' = greenlets

\* C13: when receive_blocking(id, timeout) fails with the Timeout while the
\* task of id has not finished, the task is not cancelled, and under fair
\* scheduling with a provider that answers it runs to completion.
C13_TaskOutlivesTimeout ==
    /\ [][C13_NotCancelled]_vars
    /\ \A request_id \in RequestIds :
          (/\ \E t \in Tasks : TimedOut(t, request_id)
           /\ greenlets[request_id].st = "spawned")
              ~> (greenlets[request_id].st = "done")

\* C13 witness: the wait for an id has timed out and its task is still
\* running.
C13_Witness ==
    \E t \in Tasks :
        /\ pc[t] = "done" /\ fr[t].op = "receive" /\ fr[t].res.st = "Timeout"
        /\ fr[t].at = "rx_wait"
        /\ greenlets[fr[t].id].st = "spawned"

\* ---- ManagerWrapper chains
\* C14: setProvider(p) on the outermost layer of a chain of one or more
\* wrappers succeeds, and with it the RequestManager's provider is p and
\* the provider read at every layer is p; a request_blocking through the
\* chain is served by the RequestManager's provider.
C14_SetProviderStep ==
    \A t \in Tasks :
        pc[t] = "idle" /\ pc'[t] = "done" =>
            /\ fr'[t].op = "setProvider" =>
                  /\ fr'[t].res.st = "ok"
                  /\ provider' = fr'[t].a
                  /\ \A k \in 0..layers :
                        provider_view(provider', k) = fr'[t].a
            /\ fr'[t].op = "chain_request" /\ fr'[t].res.st = "ok" =>
                  fr'[t].res.v = Served(provider)

C14_ChainForwards == [][C14_SetProviderStep]_vars

\* ---- DelegatedSigningManager.get_chain_nonce
\* C15: the chain nonce of a DelegatedSigningManager is the larger of the
\* pending counts the signature manager and the wrapped manager reported
\* (3 and 5 give 5), so what get_nonce returns is below neither.
C15_ChainNonceIsLarger ==
    delegated =>
        /\ chain_nonce_value(3, 5) = 5
        /\ \A t \in Tasks :
              GetNonceReturned(t) =>
                  /\ fr[t].sn \in Nonces /\ fr[t].wn \in Nonces
                  /\ fr[t].chain >= fr[t].sn /\ fr[t].chain >= fr[t].wn
                  /\ fr[t].chain \in {fr[t].sn, fr[t].wn}
                  /\ fr[t].ret >= fr[t].sn /\ fr[t].ret >= fr[t].wn

\* C15 witness: the signature manager reported more than the wrapped manager
\* and get_nonce returned the signature manager's count.
C15_Witness ==
    \E t \in Tasks :
        /\ delegated
        /\ GetNonceReturned(t)
        /\ fr[t].sn > fr[t].wn
        /\ fr[t].ret = fr[t].sn

\* ---- the queries of construct_full_transaction
\* C19 (state part): when construct_full_transaction has returned, the chain
\* nonce and the gas price have been asked for, whatever base supplied; the
\* tracked hashes of base.from are pruned against that chain nonce; and the
\* record keeps the nonce and gas price base supplied.
C19_QueriesMade ==
    \A t \in Tasks :
        Constructed(t) =>
            /\ Positions(t, Inner("eth_getTransactionCount")) # {}
            /\ Positions(t, Inner("eth_gasPrice")) # {}
            /\ fr[t].chain \in Nonces
            /\ \A h \in known_transactions[fr[t].a] : NonceOf(h) > fr[t].chain
            /\ fr[t].hasNonce => fr[t].full["nonce"] = Hex(fr[t].nonce)
            /\ "gasPrice" \in extra_fields =>
                  fr[t].full["gasPrice"] = CallerValue("gasPrice")

\* C19 (step part): each of the two queries is a step of every intercepted
\* send: the step either goes on with the query logged or ends the call with
\* the exception of the query.
C19_QueryStep ==
    \A t \in Tasks :
        SendTxn(t) /\ pc[t] \in {"chain", "gasprice"} /\ pc'[t] # pc[t] =>
            \/ /\ pc'[t] = "done"
               /\ fr'[t].res.st \in
                     BroadcastErrors \cup {"NotImplementedError"}
            \/ /\ pc'[t] \in {"prune", "gasprice", "sha3"}
               /\ Len(fr'[t].log) = Len(fr[t].log) + 1
               /\ fr'[t].log[Len(fr'[t].log)] =
                     Inner(IF pc[t] = "chain" THEN "eth_getTransactionCount"
                           ELSE "eth_gasPrice")

\* C19: construct_full_transaction runs get_nonce(base.from) and the
\* eth_gasPrice query also when base supplies nonce and gasPrice: the
\* supplied values are kept, but the chain nonce is queried, the tracked set
\* is pruned against it, and a failure of either query fails the call.
C19_DefaultsAlwaysEvaluated == []C19_QueriesMade /\ [][C19_QueryStep]_vars

\* C19 witness: a send whose base supplies nonce and gasPrice has failed with
\* the RPC error of its eth_gasPrice query.
C19_Witness ==
    \E t \in Tasks :
        /\ SendTxn(t) /\ pc[t] = "done"
        /\ fr[t].hasNonce /\ "gasPrice" \in extra_fields
        /\ fr[t].at = "gasprice"
        /\ fr[t].res.st = "RPCError"

\* ---- request_async on the interceptor
\* the places of request_blocking on the interceptor where a transaction is
\* constructed, signed, sent or tracked
Intercepting ==
    {"chain_signer", "chain", "prune", "gasprice", "sha3", "sign", "forward",
     "lookup"}

\* C18: request_async(method, params) on the interceptor is not intercepted,
\* for eth_sendTransaction and the other transaction-sending methods as for
\* any method: the spawned task hands the provider the method it was given,
\* nothing is constructed, allocated or signed, and neither the call nor a
\* later receive_blocking adds anything to the tracked sets.
C18_AsyncNotIntercepted ==
    /\ \A i \in RequestIds :
          greenlets[i].st = "done" => greenlets[i].sent = greenlets[i].m
    /\ \A t \in Tasks : pc[t] \notin Intercepting
    /\ \A a \in Addrs : known_transactions[a] = {}

\* C18 witness: an eth_sendTransaction went to the provider as it was and
\* its retrieval is over.
C18_Witness ==
    \E t \in Tasks, i \in RequestIds :
        /\ greenlets[i].st = "done"
        /\ greenlets[i].m = "eth_sendTransaction"
        /\ greenlets[i].sent = "eth_sendTransaction"
        /\ pc[t] = "done" /\ fr[t].op = "receive" /\ fr[t].id = i
        /\ fr[t].at = "rx_wait"

\* ---- the timer of receive_blocking
\* C20: when receive_blocking(id, timeout) has returned, or failed with the
\* task's own error, the timer it armed is armed no longer, and no Timeout
\* is raised in the caller outside receive_blocking.
C20_NoTimerLeftArmed ==
    \A t \in Tasks :
        /\ Received(t) => fr[t].id \notin timers[t]
        /\ fr[t].op # "caller"

\* ---- cooperative tasks on one interceptor
\* C16 (step part): a hash leaves the tracked set of an address only in a
\* turn of a prune pass for that address, it is a hash of the copy the pass
\* took when it started, and the pass resolves it in that turn to a nonce at
\* or below its chain nonce.
C16_RemovesOnlyResolved ==
    \A h \in Hashes :
        h \in known_transactions[Watched]
        /\ h \notin known_transactions'[Watched] =>
            /\ pc[Pruner] = "prune"
            /\ h \in fr[Pruner].todo /\ h \in fr[Pruner].snap
            /\ NonceOf(h) <= fr[Pruner].chain
            /\ known_transactions'[Watched] = known_transactions[Watched] \ {h}

\* C16 (state part): the hashes added under the address while the pass was
\* between taking its copy and returning (hist.unex) are tracked when the
\* pass has finished, and none of them was in the copy.
C16_AddedStillTracked ==
    pc[Pruner] = "done" /\ fr[Pruner].res.st = "ok" =>
        /\ hist.unex \subseteq known_transactions[Watched]
        /\ hist.unex \cap fr[Pruner].snap = {}

\* C16: when a prune pass of get_nonce(addr) interleaves at its RPC calls
\* with sends that add hashes under addr, the pass removes only hashes it
\* has itself resolved to a nonce at or below its chain nonce, and a hash
\* added while the pass was suspended is still tracked when it finishes.
C16_PruneAmongSends ==
    []C16_AddedStillTracked /\ [][C16_RemovesOnlyResolved]_vars

\* C16 witness: a pass has finished that dropped a hash of its copy and
\* during which a hash was added under the address; the added hash is
\* tracked.
C16_Witness ==
    /\ pc[Pruner] = "done" /\ fr[Pruner].res.st = "ok"
    /\ fr[Pruner].snap \ known_transactions[Watched] # {}
    /\ hist.unex # {}
    /\ hist.unex \subseteq known_transactions[Watched]

\* the nonce of the transaction t is sending has been allocated
Allocated(t) ==
    /\ SendTxn(t) /\ ~fr[t].hasNonce
    /\ pc[t] \in {"gasprice", "sha3", "sign", "forward", "lookup"}

\* C17: two request_blocking('eth_sendTransaction') calls for the same
\* address, neither supplying a nonce, that run as concurrent tasks on one
\* interceptor are allocated different nonces.
C17_DifferentNonces ==
    \A t \in Tasks, u \in Tasks :
        t # u /\ Allocated(t) /\ Allocated(u) /\ fr[t].a = fr[u].a =>
            fr[t].nonce # fr[u].nonce
====
